---- MODULE Spec2Model ----
(***************************************************************************)
(* Dispatch-and-fallback engine of mcp-server-chart: callTool resolves a   *)
(* tool name to a chart type, generateChart validates the arguments,       *)
(* selects one of three strategies (local render + upload with external    *)
(* fallback, Map API, Chart API) and normalises the outcome into an MCP    *)
(* response envelope.                                                      *)
(*                                                                         *)
(* Strings that the code takes apart or compares (tool names, chart types) *)
(* are sequences of tokens split at "-" and "_", the separators kept as    *)
(* tokens: "pin-map" is <<"pin", "-", "map">>.  Messages are sequences of  *)
(* text parts, so a template string is a concatenation.  A JavaScript      *)
(* object is a function from its keys; an absent key is absent from the    *)
(* DOMAIN.                                                                 *)
(***************************************************************************)
EXTENDS Integers, Sequences, FiniteSets, TLC

(* ---------------------------- bounds ----------------------------------- *)
\* longest candlestick data list a request carries
MaxDataLen == 1
\* number of request slots of the process
NumReqs == 2

Reqs == 1..NumReqs

(* ------------------------ string helpers ------------------------------- *)
\* String.prototype.replace(pattern, replacement) with a string pattern:
\* only the first occurrence is replaced.
RECURSIVE replace(_, _, _)
replace(s, pattern, replacement) ==
  IF s = <<>> THEN <<>>
  ELSE IF Head(s) = pattern THEN <<replacement>> \o Tail(s)
  ELSE <<Head(s)>> \o replace(Tail(s), pattern, replacement)

\* Array.prototype.join(sep) over an array of strings
RECURSIVE join(_, _)
join(arr, sep) ==
  IF arr = <<>> THEN <<>>
  ELSE IF Len(arr) = 1 THEN arr[1]
  ELSE arr[1] \o <<sep>> \o join(Tail(arr), sep)

\* the text s occurs in the text m
Includes(m, s) ==
  \E i \in 0..(Len(m) - Len(s)) : \A j \in 1..Len(s) : m[i + j] = s[j]

\* JavaScript truthiness of a string or undefined value
Truthy(v) == v # <<>>

(* ------------------------ chart-type registry -------------------------- *)
\* keys of CHART_TYPE_MAP in insertion order
CHART_TYPE_KEYS ==
  << <<"generate", "_", "area", "_", "chart">>,
     <<"generate", "_", "bar", "_", "chart">>,
     <<"generate", "_", "boxplot", "_", "chart">>,
     <<"generate", "_", "candlestick", "_", "chart">>,
     <<"generate", "_", "column", "_", "chart">>,
     <<"generate", "_", "district", "_", "map">>,
     <<"generate", "_", "dual", "_", "axes", "_", "chart">>,
     <<"generate", "_", "fishbone", "_", "diagram">>,
     <<"generate", "_", "flow", "_", "diagram">>,
     <<"generate", "_", "funnel", "_", "chart">>,
     <<"generate", "_", "histogram", "_", "chart">>,
     <<"generate", "_", "line", "_", "chart">>,
     <<"generate", "_", "liquid", "_", "chart">>,
     <<"generate", "_", "mind", "_", "map">>,
     <<"generate", "_", "network", "_", "graph">>,
     <<"generate", "_", "organization", "_", "chart">>,
     <<"generate", "_", "path", "_", "map">>,
     <<"generate", "_", "pie", "_", "chart">>,
     <<"generate", "_", "pin", "_", "map">>,
     <<"generate", "_", "radar", "_", "chart">>,
     <<"generate", "_", "sankey", "_", "chart">>,
     <<"generate", "_", "scatter", "_", "chart">>,
     <<"generate", "_", "treemap", "_", "chart">>,
     <<"generate", "_", "venn", "_", "chart">>,
     <<"generate", "_", "violin", "_", "chart">>,
     <<"generate", "_", "word", "_", "cloud", "_", "chart">> >>

CHART_TYPE_MAP ==
     (<<"generate", "_", "area", "_", "chart">> :> <<"area">>)
  @@ (<<"generate", "_", "bar", "_", "chart">> :> <<"bar">>)
  @@ (<<"generate", "_", "boxplot", "_", "chart">> :> <<"boxplot">>)
  @@ (<<"generate", "_", "candlestick", "_", "chart">> :> <<"candlestick">>)
  @@ (<<"generate", "_", "column", "_", "chart">> :> <<"column">>)
  @@ (<<"generate", "_", "district", "_", "map">> :> <<"district", "-", "map">>)
  @@ (<<"generate", "_", "dual", "_", "axes", "_", "chart">> :> <<"dual", "-", "axes">>)
  @@ (<<"generate", "_", "fishbone", "_", "diagram">> :> <<"fishbone", "-", "diagram">>)
  @@ (<<"generate", "_", "flow", "_", "diagram">> :> <<"flow", "-", "diagram">>)
  @@ (<<"generate", "_", "funnel", "_", "chart">> :> <<"funnel">>)
  @@ (<<"generate", "_", "histogram", "_", "chart">> :> <<"histogram">>)
  @@ (<<"generate", "_", "line", "_", "chart">> :> <<"line">>)
  @@ (<<"generate", "_", "liquid", "_", "chart">> :> <<"liquid">>)
  @@ (<<"generate", "_", "mind", "_", "map">> :> <<"mind", "-", "map">>)
  @@ (<<"generate", "_", "network", "_", "graph">> :> <<"network", "-", "graph">>)
  @@ (<<"generate", "_", "organization", "_", "chart">> :> <<"organization", "-", "chart">>)
  @@ (<<"generate", "_", "path", "_", "map">> :> <<"path", "-", "map">>)
  @@ (<<"generate", "_", "pie", "_", "chart">> :> <<"pie">>)
  @@ (<<"generate", "_", "pin", "_", "map">> :> <<"pin", "-", "map">>)
  @@ (<<"generate", "_", "radar", "_", "chart">> :> <<"radar">>)
  @@ (<<"generate", "_", "sankey", "_", "chart">> :> <<"sankey">>)
  @@ (<<"generate", "_", "scatter", "_", "chart">> :> <<"scatter">>)
  @@ (<<"generate", "_", "treemap", "_", "chart">> :> <<"treemap">>)
  @@ (<<"generate", "_", "venn", "_", "chart">> :> <<"venn">>)
  @@ (<<"generate", "_", "violin", "_", "chart">> :> <<"violin">>)
  @@ (<<"generate", "_", "word", "_", "cloud", "_", "chart">> :> <<"word", "-", "cloud">>)

\* the type enumeration advertised by the unified tool's input schema
ChartTypeEnum ==
  { <<"area">>,
    <<"bar">>,
    <<"boxplot">>,
    <<"column">>,
    <<"district", "-", "map">>,
    <<"dual", "-", "axes">>,
    <<"fishbone", "-", "diagram">>,
    <<"flow", "-", "diagram">>,
    <<"funnel">>,
    <<"histogram">>,
    <<"line">>,
    <<"liquid">>,
    <<"mind", "-", "map">>,
    <<"network", "-", "graph">>,
    <<"organization", "-", "chart">>,
    <<"path", "-", "map">>,
    <<"pie">>,
    <<"pin", "-", "map">>,
    <<"radar">>,
    <<"sankey">>,
    <<"scatter">>,
    <<"treemap">>,
    <<"venn">>,
    <<"violin">>,
    <<"word", "-", "cloud">> }

\* the unified entry point
GENERATE_CHART == <<"generate", "_", "chart">>

\* Properties every object literal inherits from Object.prototype; the
\* inherited values are functions, shown by their source text.
OBJECT_PROTOTYPE ==
     (<<"constructor">> :> <<"function Object() { [native code] }">>)
  @@ (<<"toString">> :> <<"function toString() { [native code] }">>)

\* obj[key] on an object literal: own property first, then the prototype
\* chain; undefined (the empty value) when neither has the key.
GetProperty(obj, key) ==
  IF key \in DOMAIN obj THEN obj[key]
  ELSE IF key \in DOMAIN OBJECT_PROTOTYPE THEN OBJECT_PROTOTYPE[key]
  ELSE <<>>

\* Object.values(CHART_TYPE_MAP): own enumerable values in insertion order
ObjectValues == [i \in 1..Len(CHART_TYPE_KEYS) |-> CHART_TYPE_MAP[CHART_TYPE_KEYS[i]]]

\* Array.prototype.includes
ArrayIncludes(arr, v) == \E i \in 1..Len(arr) : arr[i] = v

\* const { k, ...rest } = obj : the rest object
Omit(obj, k) == [x \in (DOMAIN obj) \ {k} |-> obj[x]]

\* { type: t, ...obj } : a later spread key overrides an earlier literal key
SpreadOverType(t, obj) ==
  [x \in (DOMAIN obj) \cup {"type"} |-> IF x \in DOMAIN obj THEN obj[x] ELSE t]

(* --------------------------- envelopes --------------------------------- *)
TextBlock(text) == [type |-> "text", text |-> text]

\* the error envelope without its isError flag
ErrorEnvelope_NoFlag(text) == [content |-> <<TextBlock(text)>>]

\* { content: [{type: "text", text}], isError: true }
ErrorEnvelope(text) == [content |-> <<TextBlock(text)>>, isError |-> TRUE]

(* ------------------------------ inputs --------------------------------- *)
\* one record of the candlestick data list, each field by its JSON type
CandleInputs ==
  { [date |-> "string", open |-> "number", close |-> "number",
     high |-> "number", low |-> "number"],
    [date |-> "string", open |-> "string", close |-> "number",
     high |-> "number", low |-> "number"],
    [date |-> "string", open |-> "number", close |-> "number",
     high |-> "number"] }

\* values of the data argument: a list of records, or something not a list
DataInputs ==
  { [isArray |-> TRUE, items |-> s] :
      s \in UNION { [1..n -> CandleInputs] : n \in 0..MaxDataLen } }
  \cup { [isArray |-> FALSE, items |-> <<>>] }

\* values of the type argument: the empty string, an unsupported name, and
\* every chart type of the registry
TypeInputs ==
  { <<>>, <<"not", "-", "a", "-", "real", "-", "type">> }
  \cup { ObjectValues[i] : i \in DOMAIN ObjectValues }

\* argument objects over the keys K, the type key drawn from T
ArgsWithKeys(K, T) ==
  { [k \in K |-> IF k = "type" THEN t ELSE d] :
      t \in (IF "type" \in K THEN T ELSE {<<>>}),
      d \in (IF "data" \in K THEN DataInputs ELSE {[isArray |-> FALSE, items |-> <<>>]}) }

\* the argument objects tried with tool t: the unified tool gets every type
\* value, an individual tool gets one stray type key
ArgInputs(t) ==
  UNION { ArgsWithKeys(K, IF t = GENERATE_CHART THEN TypeInputs ELSE {<<"pie">>}) :
            K \in SUBSET {"type", "data"} }

\* registered tools, the unified tool, an unregistered name, and names that
\* are properties of Object.prototype
ToolInputs ==
  { CHART_TYPE_KEYS[i] : i \in DOMAIN CHART_TYPE_KEYS }
  \cup { GENERATE_CHART, <<"generate", "_", "unknown", "_", "chart">> }
  \cup DOMAIN OBJECT_PROTOTYPE

\* values of process.env.STOCK_CHART_SERVICE; the empty value is unset
EnvInputs == { <<>>, <<"http://localhost:3001/api/candlestick">> }

(* ------------------------------ state ---------------------------------- *)
VARIABLES
  pc,           \* pc[r]: position of request r
  tool,         \* callTool's tool
  args,         \* callTool's args
  chartType,    \* generateChart's chartType
  options,      \* generateChart's args
  localError,   \* the error caught by generateStockChart's outer catch
  base64Image,  \* the image handed to uploadImage
  customServiceUrl, \* generateStockChart's reading of STOCK_CHART_SERVICE
  result,       \* what the strategy returned
  envelope,     \* what callTool returned
  calls,        \* the collaborator calls of the request, in order
  failedAt,     \* the stage whose failure ended the request, "" if none
  STOCK_CHART_SERVICE, \* process.env.STOCK_CHART_SERVICE
  atStartup     \* the value STOCK_CHART_SERVICE had when the process started

vars == <<pc, tool, args, chartType, options, localError, base64Image,
          customServiceUrl,
          result, envelope, calls, failedAt, STOCK_CHART_SERVICE, atStartup>>

EmptyObject == [k \in {} |-> <<>>]
\* new Error(message): no response attached
Error(message) == [message |-> message, response |-> FALSE, isValidateError |-> FALSE]
\* an error thrown by axios: a response is attached when the server answered
AxiosError(message, response) ==
  [message |-> message, response |-> response, isValidateError |-> FALSE]
NoError == Error(<<>>)
NoEnvelope == [content |-> <<>>]

Init ==
  /\ pc = [r \in Reqs |-> "Idle"]
  /\ tool = [r \in Reqs |-> <<>>]
  /\ args = [r \in Reqs |-> EmptyObject]
  /\ chartType = [r \in Reqs |-> <<>>]
  /\ options = [r \in Reqs |-> EmptyObject]
  /\ localError = [r \in Reqs |-> NoError]
  /\ base64Image = [r \in Reqs |-> <<>>]
  /\ customServiceUrl = [r \in Reqs |-> <<>>]
  /\ result = [r \in Reqs |-> EmptyObject]
  /\ envelope = [r \in Reqs |-> NoEnvelope]
  /\ calls = [r \in Reqs |-> <<>>]
  /\ failedAt = [r \in Reqs |-> ""]
  /\ STOCK_CHART_SERVICE \in EnvInputs
  /\ atStartup = STOCK_CHART_SERVICE

(* ----------------------------- callTool -------------------------------- *)
\* callTool letting a type key of the arguments override the chart type of
\* an individual tool
Resolve_ArgsTypeFirst(t, a) ==
  IF t = GENERATE_CHART
  THEN LET type == IF "type" \in DOMAIN a THEN a.type ELSE <<>>
       IN IF ~Truthy(type)
          THEN [returned |-> TRUE, chartType |-> <<>>, args |-> EmptyObject,
                envelope |-> ErrorEnvelope(
                  <<"The 'type' parameter is ", "required",
                    " for generate_chart tool.">>)]
          ELSE IF ~ArrayIncludes(ObjectValues, type)
          THEN [returned |-> TRUE, chartType |-> <<>>, args |-> EmptyObject,
                envelope |-> ErrorEnvelope(
                  <<"Unsupported chart type: ">> \o type
                  \o <<". Supported types: ">> \o join(ObjectValues, ", "))]
          ELSE [returned |-> FALSE, chartType |-> type, args |-> Omit(a, "type"),
                envelope |-> NoEnvelope]
  ELSE LET ct == IF "type" \in DOMAIN a /\ Truthy(a.type) THEN a.type
                 ELSE GetProperty(CHART_TYPE_MAP, t)
       IN IF ~Truthy(ct)
          THEN [returned |-> TRUE, chartType |-> <<>>, args |-> EmptyObject,
                envelope |-> ErrorEnvelope(
                  <<"Unknown tool", ": ">> \o t \o <<".">>)]
          ELSE [returned |-> FALSE, chartType |-> ct, args |-> a,
                envelope |-> NoEnvelope]

\* callTool checking the type against the enumeration of the unified tool's
\* input schema instead of the values of the registry
Resolve_EnumCheck(t, a) ==
  IF t = GENERATE_CHART
  THEN LET type == IF "type" \in DOMAIN a THEN a.type ELSE <<>>
       IN IF ~Truthy(type)
          THEN [returned |-> TRUE, chartType |-> <<>>, args |-> EmptyObject,
                envelope |-> ErrorEnvelope(
                  <<"The 'type' parameter is ", "required",
                    " for generate_chart tool.">>)]
          ELSE IF type \notin ChartTypeEnum
          THEN [returned |-> TRUE, chartType |-> <<>>, args |-> EmptyObject,
                envelope |-> ErrorEnvelope(
                  <<"Unsupported chart type: ">> \o type
                  \o <<". Supported types: ">> \o join(ObjectValues, ", "))]
          ELSE [returned |-> FALSE, chartType |-> type, args |-> Omit(a, "type"),
                envelope |-> NoEnvelope]
  ELSE LET ct == GetProperty(CHART_TYPE_MAP, t)
       IN IF ~Truthy(ct)
          THEN [returned |-> TRUE, chartType |-> <<>>, args |-> EmptyObject,
                envelope |-> ErrorEnvelope(
                  <<"Unknown tool", ": ">> \o t \o <<".">>)]
          ELSE [returned |-> FALSE, chartType |-> ct, args |-> a,
                envelope |-> NoEnvelope]

\* callTool up to the call of generateChart: either the envelope it returns
\* at once, or the chartType and args it passes on.
Resolve(t, a) ==
  IF t = GENERATE_CHART
  THEN LET type == IF "type" \in DOMAIN a THEN a.type ELSE <<>>
           restArgs == Omit(a, "type")
       IN IF ~Truthy(type)
          THEN [returned |-> TRUE, chartType |-> <<>>, args |-> EmptyObject,
                envelope |-> ErrorEnvelope(
                  <<"The 'type' parameter is ", "required",
                    " for generate_chart tool.">>)]
          ELSE IF ~ArrayIncludes(ObjectValues, type)
          THEN [returned |-> TRUE, chartType |-> <<>>, args |-> EmptyObject,
                envelope |-> ErrorEnvelope(
                  <<"Unsupported chart type: ">> \o type
                  \o <<". Supported types: ">> \o join(ObjectValues, ", "))]
          ELSE [returned |-> FALSE, chartType |-> type, args |-> restArgs,
                envelope |-> NoEnvelope]
  ELSE LET ct == GetProperty(CHART_TYPE_MAP, t)
       IN IF ~Truthy(ct)
          THEN [returned |-> TRUE, chartType |-> <<>>, args |-> EmptyObject,
                envelope |-> ErrorEnvelope(
                  <<"Unknown tool", ": ">> \o t \o <<".">>)]
          ELSE [returned |-> FALSE, chartType |-> ct, args |-> a,
                envelope |-> NoEnvelope]

\* callTool handing the resolved request to strategy selection without
\* validating it
CallTool_NoValidation(r, t, a) ==
  /\ pc[r] = "Idle"
  /\ tool' = [tool EXCEPT ![r] = t]
  /\ args' = [args EXCEPT ![r] = a]
  /\ LET res == Resolve(t, a)
     IN /\ chartType' = [chartType EXCEPT ![r] = res.chartType]
        /\ options' = [options EXCEPT ![r] = res.args]
        /\ envelope' = [envelope EXCEPT ![r] = res.envelope]
        /\ pc' = [pc EXCEPT ![r] =
             IF res.returned THEN "Errored" ELSE "SelectingStrategy"]
        /\ failedAt' = [failedAt EXCEPT ![r] = IF res.returned THEN "Resolving" ELSE ""]
  /\ UNCHANGED <<localError, base64Image, customServiceUrl, result, calls,
                 STOCK_CHART_SERVICE, atStartup>>

CallTool(r, t, a) ==
  /\ pc[r] = "Idle"
  /\ tool' = [tool EXCEPT ![r] = t]
  /\ args' = [args EXCEPT ![r] = a]
  /\ LET res == Resolve(t, a)
     IN /\ chartType' = [chartType EXCEPT ![r] = res.chartType]
        /\ options' = [options EXCEPT ![r] = res.args]
        /\ envelope' = [envelope EXCEPT ![r] = res.envelope]
        /\ pc' = [pc EXCEPT ![r] = IF res.returned THEN "Errored" ELSE "Validating"]
        /\ failedAt' = [failedAt EXCEPT ![r] = IF res.returned THEN "Resolving" ELSE ""]
  /\ UNCHANGED <<localError, base64Image, customServiceUrl, result, calls,
                 STOCK_CHART_SERVICE,
                 atStartup>>

(* ----------------------------- validation ------------------------------ *)
CANDLESTICK == <<"candlestick">>

\* the fields of one candlestick record and their zod types; volume is optional
CandleFields == <<"date", "open", "close", "high", "low", "volume">>
CandleFieldType(f) == IF f = "date" THEN "string" ELSE "number"
CandleFieldOptional(f) == f = "volume"

\* zod issues of one record, field by field
RECURSIVE CandleIssues(_, _)
CandleIssues(item, fields) ==
  IF fields = <<>> THEN <<>>
  ELSE LET f == Head(fields)
           here == IF f \notin DOMAIN item
                   THEN IF CandleFieldOptional(f) THEN <<>> ELSE <<<<"Required">>>>
                   ELSE IF item[f] # CandleFieldType(f)
                   THEN <<<<"Expected ", CandleFieldType(f), ", received ", item[f]>>>>
                   ELSE <<>>
       IN here \o CandleIssues(item, Tail(fields))

RECURSIVE ItemsIssues(_)
ItemsIssues(items) ==
  IF items = <<>> THEN <<>>
  ELSE CandleIssues(Head(items), CandleFields) \o ItemsIssues(Tail(items))

\* the candlestick schema without its nonempty constraint
CandlestickSchemaIssues_NoNonempty(a) ==
  IF "data" \notin DOMAIN a THEN <<<<"Required">>>>
  ELSE IF ~a.data.isArray THEN <<<<"Expected array, received string">>>>
  ELSE ItemsIssues(a.data.items)

\* the issues z.object(candlestick.schema).safeParse(a) reports; keys the
\* schema does not declare are stripped, never reported
CandlestickSchemaIssues(a) ==
  IF "data" \notin DOMAIN a THEN <<<<"Required">>>>
  ELSE IF ~a.data.isArray THEN <<<<"Expected array, received string">>>>
  ELSE ItemsIssues(a.data.items)
       \o (IF a.data.items = <<>>
           THEN <<<<"Candlestick chart data cannot be empty.">>>> ELSE <<>>)

\* safeParse results possible for a chart type whose schema is not at hand:
\* the schema accepts the arguments or rejects them
OtherSchemaResults ==
  { [success |-> TRUE, message |-> <<>>],
    [success |-> FALSE, message |-> <<"Required">>] }

\* the results of validating a against the schema registered for chart type
\* ct; a chart type without a registered schema skips validation
SafeParseResults(ct, a) ==
  IF ct = CANDLESTICK
  THEN LET issues == CandlestickSchemaIssues(a)
       IN { [success |-> issues = <<>>, message |-> join(issues, ", ")] }
  ELSE IF ArrayIncludes(ObjectValues, ct) THEN OtherSchemaResults
  ELSE { [success |-> TRUE, message |-> <<>>] }

\* generateChart, the validation block
Validate(r) ==
  /\ pc[r] = "Validating"
  /\ \E res \in SafeParseResults(chartType[r], options[r]) :
       IF ~res.success
       THEN /\ envelope' = [envelope EXCEPT ![r] =
                 ErrorEnvelope(<<"Invalid parameters: ">> \o res.message)]
            /\ pc' = [pc EXCEPT ![r] = "Errored"]
            /\ failedAt' = [failedAt EXCEPT ![r] = "Validating"]
       ELSE /\ pc' = [pc EXCEPT ![r] = "SelectingStrategy"]
            /\ UNCHANGED <<envelope, failedAt>>
  /\ UNCHANGED <<tool, args, chartType, options, localError, base64Image, customServiceUrl,
                 result, calls, STOCK_CHART_SERVICE,
                 atStartup>>

(* ------------------------- strategy selection -------------------------- *)
isStockChart(ct, originalTool) ==
  \/ ct = CANDLESTICK
  \/ originalTool = <<"generate", "_", "candlestick", "_", "chart">>

\* the map check by tool name only, without the chart-type list
isMapChartTool_ToolOnly(ct, originalTool) ==
  originalTool \in { <<"generate", "_", "district", "_", "map">>,
                     <<"generate", "_", "path", "_", "map">>,
                     <<"generate", "_", "pin", "_", "map">> }

isMapChartTool(ct, originalTool) ==
  \/ originalTool \in { <<"generate", "_", "district", "_", "map">>,
                        <<"generate", "_", "path", "_", "map">>,
                        <<"generate", "_", "pin", "_", "map">> }
  \/ ct \in { <<"district", "-", "map">>, <<"path", "-", "map">>,
              <<"pin", "-", "map">> }

\* the strategy generateChart runs, by the order of its checks
Strategy(ct, originalTool) ==
  IF isStockChart(ct, originalTool) THEN "stock"
  ELSE IF isMapChartTool(ct, originalTool) THEN "map"
  ELSE "chart"

SelectStrategy(r) ==
  /\ pc[r] = "SelectingStrategy"
  /\ pc' = [pc EXCEPT ![r] =
       CASE Strategy(chartType[r], tool[r]) = "stock" -> "RenderLocal"
         [] Strategy(chartType[r], tool[r]) = "map" -> "MapApi"
         [] OTHER -> "ChartApi"]
  /\ UNCHANGED <<tool, args, chartType, options, localError, base64Image, customServiceUrl,
                 result, envelope, calls, failedAt, STOCK_CHART_SERVICE,
                 atStartup>>

(* --------------------------- error handling ---------------------------- *)
\* the catch blocks of generate.ts: an error with a message and without a
\* response is thrown again under a prefix, any other error as it is
Rethrow(prefix, e) ==
  IF Truthy(e.message) /\ ~e.response THEN Error(<<prefix>> \o e.message) ELSE e

\* generateChart's catch block
CatchEnvelope(e) ==
  ErrorEnvelope(
    IF e.isValidateError THEN e.message
    ELSE IF Truthy(e.message) THEN <<"Failed to generate chart: ">> \o e.message
    ELSE <<"Unknown error.">>)

\* request r ends in generateChart's catch block with error e
Throw(r, e) ==
  /\ envelope' = [envelope EXCEPT ![r] = CatchEnvelope(e)]
  /\ pc' = [pc EXCEPT ![r] = "Errored"]
  /\ failedAt' = [failedAt EXCEPT ![r] = "Executing"]

(* ------------------------ Chart API strategy --------------------------- *)
SOURCE == <<"mcp-server-chart">>

\* { type, ...options, source: "mcp-server-chart" }
ChartRequestBody(type, opts) ==
  [x \in (DOMAIN opts) \cup {"type", "source"} |->
     IF x = "source" THEN SOURCE
     ELSE IF x \in DOMAIN opts THEN opts[x]
     ELSE type]

\* what axios.post to the Chart API can produce: response.data, or an error
ChartApiOutcomes ==
  { [kind |-> "data", success |-> TRUE, errorMessage |-> <<>>,
     resultObj |-> <<"http://x/y.png">>, error |-> NoError],
    [kind |-> "data", success |-> FALSE, errorMessage |-> <<"invalid spec">>,
     resultObj |-> <<>>, error |-> NoError],
    [kind |-> "data", success |-> FALSE, errorMessage |-> <<>>,
     resultObj |-> <<>>, error |-> NoError],
    [kind |-> "error", success |-> FALSE, errorMessage |-> <<>>, resultObj |-> <<>>,
     error |-> AxiosError(<<"connect ECONNREFUSED">>, FALSE)],
    [kind |-> "error", success |-> FALSE, errorMessage |-> <<>>, resultObj |-> <<>>,
     error |-> AxiosError(<<"Request failed with status code 500">>, TRUE)],
    [kind |-> "error", success |-> FALSE, errorMessage |-> <<>>, resultObj |-> <<>>,
     error |-> AxiosError(<<>>, FALSE)] }

\* generateChartUrl after axios.post produced out: the URL it returns or the
\* error it throws
generateChartUrl(out) ==
  IF out.kind = "data" /\ out.success
  THEN [threw |-> FALSE, value |-> out.resultObj, error |-> NoError]
  ELSE IF out.kind = "data"
  THEN [threw |-> TRUE, value |-> <<>>,
        error |-> Rethrow("Failed to generate chart URL: ",
                   Error(IF Truthy(out.errorMessage) THEN out.errorMessage
                         ELSE <<"Chart generation failed">>))]
  ELSE [threw |-> TRUE, value |-> <<>>,
        error |-> Rethrow("Failed to generate chart URL: ", out.error)]

ChartApi(r) ==
  /\ pc[r] = "ChartApi"
  /\ \E out \in ChartApiOutcomes :
       LET res == generateChartUrl(out)
       IN /\ calls' = [calls EXCEPT ![r] = Append(@,
                 [to |-> "ChartAPI", ok |-> ~res.threw, value |-> out.resultObj,
                  reply |-> out,
                  tool |-> <<>>,
                  body |-> ChartRequestBody(chartType[r], options[r])])]
          /\ IF res.threw
             THEN Throw(r, res.error) /\ UNCHANGED result
             ELSE /\ result' = [result EXCEPT ![r] = [url |-> res.value]]
                  /\ pc' = [pc EXCEPT ![r] = "Normalizing"]
                  /\ UNCHANGED <<envelope, failedAt>>
  /\ UNCHANGED <<tool, args, chartType, options, localError, base64Image, customServiceUrl,
                 STOCK_CHART_SERVICE,
                 atStartup>>

(* ---------------------------- normalisation ---------------------------- *)
STOCK_DESCRIPTION ==
  <<"Stock chart (candlestick) rendered locally using ECharts and uploaded to file service">>
CHART_DESCRIPTION ==
  <<"Charts spec configuration, you can use this config to generate the corresponding chart.">>

\* the map result returned whole, metadata included
Normalized_KeepMetadata(strategy, ct, opts, res) ==
  IF strategy = "map" THEN res
  ELSE [content |-> <<TextBlock(res.url)>>,
        _meta |-> [description |-> IF strategy = "stock" THEN STOCK_DESCRIPTION
                                  ELSE CHART_DESCRIPTION,
                   spec |-> SpreadOverType(ct, opts)]]

\* the envelope generateChart returns for what the strategy returned
Normalized(strategy, ct, opts, res) ==
  IF strategy = "map" THEN Omit(res, "metadata")
  ELSE [content |-> <<TextBlock(res.url)>>,
        _meta |-> [description |-> IF strategy = "stock" THEN STOCK_DESCRIPTION
                                  ELSE CHART_DESCRIPTION,
                   spec |-> SpreadOverType(ct, opts)]]

Normalize(r) ==
  /\ pc[r] = "Normalizing"
  /\ envelope' = [envelope EXCEPT ![r] =
       Normalized(Strategy(chartType[r], tool[r]), chartType[r], options[r], result[r])]
  /\ pc' = [pc EXCEPT ![r] = "Done"]
  /\ UNCHANGED <<tool, args, chartType, options, localError, base64Image, customServiceUrl,
                 result, calls, failedAt, STOCK_CHART_SERVICE,
                 atStartup>>

(* -------------------------- Map API strategy --------------------------- *)
\* the tool name built without turning the hyphen into an underscore
mapToolName_NoReplace(ct, originalTool) ==
  IF originalTool = GENERATE_CHART THEN <<"generate", "_">> \o ct ELSE originalTool

\* the tool name handed to generateMap
mapToolName(ct, originalTool) ==
  IF originalTool = GENERATE_CHART
  THEN <<"generate", "_">> \o replace(ct, "-", "_")
  ELSE originalTool

\* getServiceIdentifier()
SERVICE_ID == <<"SERVICE_ID">>

\* { serviceId, tool, input, source: "mcp-server-chart" }
MapRequestBody(t, input) ==
  [serviceId |-> SERVICE_ID, tool |-> t, input |-> input, source |-> SOURCE]

\* result objects of the Map API: { metadata, content, isError? }
MapResultObjects ==
  { [metadata |-> <<"map-id">>, content |-> <<TextBlock(<<"http://x/map.png">>)>>],
    [metadata |-> <<"map-id">>, content |-> <<TextBlock(<<"http://x/map.png">>)>>,
     isError |-> FALSE],
    [metadata |-> <<"map-id">>, content |-> <<TextBlock(<<"no such district">>)>>,
     isError |-> TRUE] }

\* what axios.post to the Map API can produce
MapApiOutcomes ==
  { [kind |-> "data", success |-> TRUE, errorMessage |-> <<>>,
     resultObj |-> o, error |-> NoError] : o \in MapResultObjects }
  \cup
  { [kind |-> "data", success |-> FALSE, errorMessage |-> <<"invalid input">>,
     resultObj |-> EmptyObject, error |-> NoError],
    [kind |-> "data", success |-> FALSE, errorMessage |-> <<>>,
     resultObj |-> EmptyObject, error |-> NoError],
    [kind |-> "error", success |-> FALSE, errorMessage |-> <<>>,
     resultObj |-> EmptyObject,
     error |-> AxiosError(<<"connect ECONNREFUSED">>, FALSE)],
    [kind |-> "error", success |-> FALSE, errorMessage |-> <<>>,
     resultObj |-> EmptyObject,
     error |-> AxiosError(<<"Request failed with status code 500">>, TRUE)] }

\* generateMap after axios.post produced out
generateMap(out) ==
  IF out.kind = "data" /\ out.success
  THEN [threw |-> FALSE, value |-> out.resultObj, error |-> NoError]
  ELSE IF out.kind = "data"
  THEN [threw |-> TRUE, value |-> EmptyObject,
        error |-> Rethrow("Failed to generate map: ",
                   Error(IF Truthy(out.errorMessage) THEN out.errorMessage
                         ELSE <<"Map generation failed">>))]
  ELSE [threw |-> TRUE, value |-> EmptyObject,
        error |-> Rethrow("Failed to generate map: ", out.error)]

MapApi(r) ==
  /\ pc[r] = "MapApi"
  /\ \E out \in MapApiOutcomes :
       LET res == generateMap(out)
           name == mapToolName(chartType[r], tool[r])
       IN /\ calls' = [calls EXCEPT ![r] = Append(@,
                 [to |-> "MapAPI", ok |-> ~res.threw, value |-> out.resultObj,
                  reply |-> out,
                  tool |-> name,
                  body |-> MapRequestBody(name, options[r])])]
          /\ IF res.threw
             THEN Throw(r, res.error) /\ UNCHANGED result
             ELSE /\ result' = [result EXCEPT ![r] = res.value]
                  /\ pc' = [pc EXCEPT ![r] = "Normalizing"]
                  /\ UNCHANGED <<envelope, failedAt>>
  /\ UNCHANGED <<tool, args, chartType, options, localError, base64Image,
                 customServiceUrl, STOCK_CHART_SERVICE,
                 atStartup>>

(* ---------------------------- stock strategy --------------------------- *)
DATA_URI_PREFIX == "data:image/png;base64,"

\* renderCandlestickChart: the data URI of the rendered image, or the error
\* the canvas or the chart library throws
RenderOutcomes ==
  { [threw |-> FALSE, value |-> <<DATA_URI_PREFIX, "iVBORw0KGgo=">>, error |-> NoError],
    [threw |-> TRUE, value |-> <<>>, error |-> Error(<<"canvas is not available">>)] }

\* what axios.post to the upload service can produce
UploadOutcomes ==
  { [kind |-> "data", url |-> <<"https://files/chart-1.png">>, error |-> NoError],
    [kind |-> "data", url |-> <<>>, error |-> NoError],
    [kind |-> "error", url |-> <<>>,
     error |-> AxiosError(<<"connect ECONNREFUSED">>, FALSE)],
    [kind |-> "error", url |-> <<>>,
     error |-> AxiosError(<<"Request failed with status code 500">>, TRUE)],
    [kind |-> "error", url |-> <<>>, error |-> AxiosError(<<>>, FALSE)] }

\* base64Image.replace(/^data:image\/\w+;base64,/, "")
StripDataUri(image) ==
  IF image # <<>> /\ Head(image) = DATA_URI_PREFIX THEN Tail(image) ELSE image

\* uploadImage returning response.data instead of response.data.url
uploadImage_ReturnsData(out) ==
  IF out.kind = "data" /\ Truthy(out.url)
  THEN [threw |-> FALSE, value |-> <<"[object Object]">>, error |-> NoError]
  ELSE [threw |-> TRUE, value |-> <<>>,
        error |-> Error(<<"Failed to upload image: ", "Unknown error">>)]

\* uploadImage after axios.post produced out
uploadImage(out) ==
  LET caught == IF out.kind = "data"
                THEN Error(<<"Upload failed: No URL in response">>)
                ELSE out.error
  IN IF out.kind = "data" /\ Truthy(out.url)
     THEN [threw |-> FALSE, value |-> out.url, error |-> NoError]
     ELSE [threw |-> TRUE, value |-> <<>>,
           error |-> Error(<<"Failed to upload image: ">>
                           \o (IF Truthy(caught.message) THEN caught.message
                               ELSE <<"Unknown error">>))]

\* the record of one call of the upload service: what was sent, whether
\* uploadImage returned, the url of the response, and the whole outcome
UploadCall(image, ok, out) ==
  [to |-> "Upload", ok |-> ok, value |-> out.url, reply |-> out, tool |-> <<>>,
   body |-> [file |-> StripDataUri(image), filename |-> "candlestick-chart.png"]]

\* renderCandlestickChart's image kept in one variable of the module instead
\* of a local of the call
RenderLocal_SharedImage(r) ==
  /\ pc[r] = "RenderLocal"
  /\ \E res \in RenderOutcomes :
       /\ calls' = [calls EXCEPT ![r] = Append(@,
            [to |-> "LocalRenderer", ok |-> ~res.threw, value |-> res.value,
             reply |-> res,
             tool |-> <<>>,
             body |-> options[r]])]
       /\ IF res.threw
          THEN /\ localError' = [localError EXCEPT ![r] = res.error]
               /\ pc' = [pc EXCEPT ![r] = "Fallback"]
               /\ UNCHANGED base64Image
          ELSE /\ base64Image' = [q \in Reqs |-> res.value]
               /\ pc' = [pc EXCEPT ![r] = "UploadLocal"]
               /\ UNCHANGED localError
  /\ UNCHANGED <<tool, args, chartType, options, customServiceUrl, result,
                 envelope, failedAt, STOCK_CHART_SERVICE,
                 atStartup>>

\* generateStockChart: await renderCandlestickChart(options)
RenderLocal(r) ==
  /\ pc[r] = "RenderLocal"
  /\ \E res \in RenderOutcomes :
       /\ calls' = [calls EXCEPT ![r] = Append(@,
            [to |-> "LocalRenderer", ok |-> ~res.threw, value |-> res.value,
             reply |-> res,
             tool |-> <<>>,
             body |-> options[r]])]
       /\ IF res.threw
          THEN /\ localError' = [localError EXCEPT ![r] = res.error]
               /\ pc' = [pc EXCEPT ![r] = "Fallback"]
               /\ UNCHANGED base64Image
          ELSE /\ base64Image' = [base64Image EXCEPT ![r] = res.value]
               /\ pc' = [pc EXCEPT ![r] = "UploadLocal"]
               /\ UNCHANGED localError
  /\ UNCHANGED <<tool, args, chartType, options, customServiceUrl, result,
                 envelope, failedAt, STOCK_CHART_SERVICE,
                 atStartup>>

\* generateStockChart: await uploadImage(base64Image, ...) inside the outer
\* try block, so that its error lands in catch (localError)
UploadLocal(r) ==
  /\ pc[r] = "UploadLocal"
  /\ \E out \in UploadOutcomes :
       LET res == uploadImage(out)
       IN /\ calls' = [calls EXCEPT ![r] = Append(@, UploadCall(base64Image[r], ~res.threw, out))]
          /\ IF res.threw
             THEN /\ localError' = [localError EXCEPT ![r] = res.error]
                  /\ pc' = [pc EXCEPT ![r] = "Fallback"]
                  /\ UNCHANGED result
             ELSE /\ result' = [result EXCEPT ![r] = [url |-> res.value]]
                  /\ pc' = [pc EXCEPT ![r] = "Normalizing"]
                  /\ UNCHANGED localError
  /\ UNCHANGED <<tool, args, chartType, options, base64Image, customServiceUrl,
                 envelope, failedAt, STOCK_CHART_SERVICE,
                 atStartup>>

\* the message without the reason of the local failure
NoFallbackMessage_NoCause(cause) ==
  <<"Local stock chart rendering failed: ", "\n\n",
    "To use an external rendering service, configure STOCK_CHART_SERVICE environment variable.\n",
    "Example: STOCK_CHART_SERVICE=http://localhost:3001/api/candlestick">>

\* the message thrown when no fallback service is configured
NoFallbackMessage(cause) ==
  <<"Local stock chart rendering failed: ">> \o cause
  \o <<"\n\n",
       "To use an external rendering service, configure STOCK_CHART_SERVICE environment variable.\n",
       "Example: STOCK_CHART_SERVICE=http://localhost:3001/api/candlestick">>

\* generateStockChart: the head of catch (localError)
Fallback(r) ==
  /\ pc[r] = "Fallback"
  /\ customServiceUrl' = [customServiceUrl EXCEPT ![r] = STOCK_CHART_SERVICE]
  /\ IF ~Truthy(STOCK_CHART_SERVICE)
     THEN Throw(r, Error(NoFallbackMessage(localError[r].message)))
     ELSE /\ pc' = [pc EXCEPT ![r] = "External"]
          /\ UNCHANGED <<envelope, failedAt>>
  /\ UNCHANGED <<tool, args, chartType, options, localError, base64Image,
                 result, calls, STOCK_CHART_SERVICE,
                 atStartup>>

\* const { data, width = 800, height = 600, title = "", style = {},
\*         theme = "default" } = options
ExternalRequestBody(opts) ==
  [k \in {"data", "width", "height", "title", "style", "theme"} |->
     IF k \in DOMAIN opts THEN opts[k]
     ELSE CASE k = "width" -> 800
            [] k = "height" -> 600
            [] k = "style" -> EmptyObject
            [] k = "theme" -> <<"default">>
            [] OTHER -> <<>>]

\* what axios.post to the external rendering service can produce
ExternalOutcomes ==
  { [kind |-> "data", data |-> <<"iVBORw0KGgo=">>, error |-> NoError],
    [kind |-> "error", data |-> <<>>,
     error |-> AxiosError(<<"timeout of 30000ms exceeded">>, FALSE)],
    [kind |-> "error", data |-> <<>>,
     error |-> AxiosError(<<"Request failed with status code 500">>, TRUE)] }

\* generateStockChart: await axios.post(customServiceUrl, ...) and the
\* conversion of the bytes into a data URI
External(r) ==
  /\ pc[r] = "External"
  /\ \E out \in ExternalOutcomes :
       /\ calls' = [calls EXCEPT ![r] = Append(@,
            [to |-> "ExternalRenderer", ok |-> out.kind = "data", value |-> out.data,
             reply |-> out,
             tool |-> customServiceUrl[r], body |-> ExternalRequestBody(options[r])])]
       /\ IF out.kind = "data"
          THEN /\ base64Image' = [base64Image EXCEPT ![r] = <<DATA_URI_PREFIX>> \o out.data]
               /\ pc' = [pc EXCEPT ![r] = "UploadExternal"]
               /\ UNCHANGED <<envelope, failedAt>>
          ELSE /\ Throw(r, Rethrow("Failed to generate stock chart: ", out.error))
               /\ UNCHANGED base64Image
  /\ UNCHANGED <<tool, args, chartType, options, localError, customServiceUrl,
                 result, STOCK_CHART_SERVICE,
                 atStartup>>

\* generateStockChart: await uploadImage(base64DataUri, ...) inside the inner
\* try block
UploadExternal(r) ==
  /\ pc[r] = "UploadExternal"
  /\ \E out \in UploadOutcomes :
       LET res == uploadImage(out)
       IN /\ calls' = [calls EXCEPT ![r] = Append(@, UploadCall(base64Image[r], ~res.threw, out))]
          /\ IF res.threw
             THEN /\ Throw(r, Rethrow("Failed to generate stock chart: ", res.error))
                  /\ UNCHANGED result
             ELSE /\ result' = [result EXCEPT ![r] = [url |-> res.value]]
                  /\ pc' = [pc EXCEPT ![r] = "Normalizing"]
                  /\ UNCHANGED <<envelope, failedAt>>
  /\ UNCHANGED <<tool, args, chartType, options, localError, base64Image,
                 customServiceUrl, STOCK_CHART_SERVICE,
                 atStartup>>

(* --------------------------- specification ----------------------------- *)
\* one step of request r
Step(r) ==
  \/ \E t \in ToolInputs : \E a \in ArgInputs(t) : CallTool(r, t, a)
  \/ Validate(r)
  \/ SelectStrategy(r)
  \/ RenderLocal(r)
  \/ UploadLocal(r)
  \/ Fallback(r)
  \/ External(r)
  \/ UploadExternal(r)
  \/ MapApi(r)
  \/ ChartApi(r)
  \/ Normalize(r)

\* a single request, processed end to end
Next == \E r \in {1} : Step(r)

Spec == Init /\ [][Next]_vars

(* ------------------------ vocabulary of the claims --------------------- *)
Finished(r) == pc[r] \in {"Done", "Errored"}

\* the positions in the call log of request r that call collaborator c
CallsTo(r, c) == { i \in DOMAIN calls[r] : calls[r][i].to = c }

\* isError is present and true in the envelope of request r
IsError(r) == "isError" \in DOMAIN envelope[r] /\ envelope[r].isError = TRUE

\* the envelope of request r is exactly one text block
OneTextBlock(r) ==
  /\ Len(envelope[r].content) = 1
  /\ envelope[r].content[1].type = "text"

\* the text of that block
Text(r) == envelope[r].content[1].text

\* request r was handed to generateChart as a candlestick request
IsCandlestick(r) == pc[r] # "Idle" /\ chartType[r] = CANDLESTICK

EmptyDataList(r) ==
  /\ "data" \in DOMAIN options[r]
  /\ options[r].data.isArray
  /\ options[r].data.items = <<>>

LocalRenderingSucceeded(r) ==
  \E i \in CallsTo(r, "LocalRenderer") : calls[r][i].ok

LocalRenderingThrew(r) ==
  \E i \in CallsTo(r, "LocalRenderer") : ~calls[r][i].ok

(* ------------------------------- C1 ------------------------------------ *)
\* C1: a candlestick request with an empty data list ends in validation:
\* it returns isError = true and no collaborator was called; and whenever
\* the arguments fail the schema of the resolved chart type, the request
\* ends with isError = true and an empty call log.
C1_ValidationBeforeCalls ==
  \A r \in Reqs :
    /\ (IsCandlestick(r) /\ EmptyDataList(r) /\ pc[r] # "Validating")
         => /\ pc[r] = "Errored"
            /\ failedAt[r] = "Validating"
            /\ IsError(r)
            /\ calls[r] = <<>>
    /\ failedAt[r] = "Validating"
         => /\ pc[r] = "Errored"
            /\ IsError(r)
            /\ OneTextBlock(r)
            /\ Includes(Text(r), <<"Invalid parameters: ">>)
            /\ calls[r] = <<>>

C1_Witness ==
  \E r \in Reqs :
    /\ IsCandlestick(r) /\ EmptyDataList(r)
    /\ pc[r] = "Errored" /\ failedAt[r] = "Validating"
    /\ Includes(Text(r), <<"Candlestick chart data cannot be empty.">>)

(* ------------------------------- C2 ------------------------------------ *)
\* the upload calls of request r, in order
UploadCalls(r) == SelectSeq(calls[r], LAMBDA c : c.to = "Upload")

\* the envelope of request r is the URL u as its sole text block, and
\* isError is absent or false
SuccessWithUrl(r, u) ==
  /\ pc[r] = "Done"
  /\ envelope[r].content = <<TextBlock(u)>>
  /\ ("isError" \in DOMAIN envelope[r] => envelope[r].isError = FALSE)

C3_UploadFailureTerminal ==
  \A r \in Reqs : \A i \in CallsTo(r, "Upload") :
    ~calls[r][i].ok
      => /\ \A j \in DOMAIN calls[r] :
              j > i => calls[r][j].to \notin {"ExternalRenderer", "Upload"}
         /\ Finished(r) => /\ IsError(r)
                           /\ Includes(Text(r), <<"Failed to upload image: ">>)

(* ------------------------------- C4 ------------------------------------ *)
ConfigurationInstructions ==
  <<"To use an external rendering service, configure STOCK_CHART_SERVICE environment variable.\n">>

\* C4: when local rendering of a candlestick request throws and no external
\* rendering service is configured, neither the external service nor the
\* upload collaborator is ever called, and the request ends with
\* isError = true and one text block that contains the reason of the local
\* failure and the instructions for configuring the fallback service.
C4_NoFallbackConfigured ==
  \A r \in Reqs :
    (IsCandlestick(r) /\ LocalRenderingThrew(r) /\ ~Truthy(STOCK_CHART_SERVICE))
      => /\ CallsTo(r, "ExternalRenderer") = {}
         /\ CallsTo(r, "Upload") = {}
         /\ pc[r] \in {"Fallback", "Errored"}
         /\ Finished(r) =>
              /\ IsError(r)
              /\ OneTextBlock(r)
              /\ Includes(Text(r), <<"Local stock chart rendering failed: ">>)
              /\ Includes(Text(r), localError[r].message)
              /\ Includes(Text(r), ConfigurationInstructions)

C4_Witness ==
  \E r \in Reqs :
    /\ IsCandlestick(r) /\ LocalRenderingThrew(r)
    /\ ~Truthy(STOCK_CHART_SERVICE)
    /\ pc[r] = "Errored"
    /\ Includes(Text(r), <<"canvas is not available">>)

(* ------------------------------- C5 ------------------------------------ *)
\* some stage of request r (resolution, validation, strategy execution) failed
StageFailed(r) == failedAt[r] # ""

\* the Map API answered success = true with a result object whose own
\* isError is true
MapResultIsError(r) ==
  \E i \in CallsTo(r, "MapAPI") :
    /\ calls[r][i].ok
    /\ "isError" \in DOMAIN calls[r][i].value
    /\ calls[r][i].value.isError = TRUE

\* C5 as stated: the envelope of a finished request has isError present and
\* true if and only if some stage failed, the map strategy included.
C5_Original ==
  \A r \in Reqs : Finished(r) => (IsError(r) <=> StageFailed(r))

\* C5 as amended: the envelope of a finished request has isError present and
\* true if and only if some stage failed or the map strategy forwarded a
\* successful Map API result object that itself carries isError = true; the
\* envelopes of the stock and chart strategies carry isError only when a
\* stage failed.
C5_IsErrorIffFailedOrForwarded ==
  \A r \in Reqs :
    Finished(r) =>
      /\ IsError(r) <=> (StageFailed(r) \/ MapResultIsError(r))
      /\ (pc[r] = "Done" /\ CallsTo(r, "MapAPI") = {})
           => "isError" \notin DOMAIN envelope[r]
      /\ StageFailed(r) <=> pc[r] = "Errored"

C5_Witness ==
  \E r \in Reqs :
    /\ pc[r] = "Done" /\ ~StageFailed(r)
    /\ MapResultIsError(r) /\ IsError(r)

(* ------------------------------- C6 ------------------------------------ *)
\* a fault of the taxonomy happened while request r ran: a caller,
\* validation or configuration fault ended a stage, or a collaborator
\* (Chart API, Map API, upload service, external renderer) failed
FaultOccurred(r) ==
  \/ StageFailed(r)
  \/ \E i \in DOMAIN calls[r] :
       /\ ~calls[r][i].ok
       /\ calls[r][i].to \in {"ChartAPI", "MapAPI", "Upload", "ExternalRenderer"}

\* C6: every fault ends the request with isError = true and exactly one
\* text block with a non-empty message, and no collaborator that failed is
\* called again.
C6_FaultsBecomeErrors ==
  \A r \in Reqs :
    /\ (Finished(r) /\ FaultOccurred(r))
         => IsError(r) /\ OneTextBlock(r) /\ Text(r) # <<>>
    /\ \A i, j \in DOMAIN calls[r] :
         (i < j /\ calls[r][i].to = calls[r][j].to) => calls[r][i].ok

(* ------------------------------- C7 ------------------------------------ *)
\* C7: a request of a non-stock, non-map chart type of the registry that
\* ends successfully returns the URL of the Chart API as its sole text
\* block, without isError, and with _meta.spec.type equal to the resolved
\* chart type.
C7_ChartUrlEnvelope ==
  \A r \in Reqs :
    (/\ pc[r] = "Done"
     /\ Strategy(chartType[r], tool[r]) = "chart"
     /\ ArrayIncludes(ObjectValues, chartType[r]))
      => /\ \E i \in CallsTo(r, "ChartAPI") :
              calls[r][i].ok /\ envelope[r].content = <<TextBlock(calls[r][i].value)>>
         /\ "isError" \notin DOMAIN envelope[r]
         /\ envelope[r]._meta.spec.type = chartType[r]

(* ------------------------------- C8 ------------------------------------ *)
MapTypeTools ==
     (<<"district", "-", "map">> :> <<"generate", "_", "district", "_", "map">>)
  @@ (<<"path", "-", "map">> :> <<"generate", "_", "path", "_", "map">>)
  @@ (<<"pin", "-", "map">> :> <<"generate", "_", "pin", "_", "map">>)

\* C8: every call of the Map API for a request of type district-map,
\* path-map or pin-map made through generate_chart forwards the tool name
\* the registry maps to that type; a request made by a map tool's own name
\* forwards that name unchanged.
C8_MapToolNameForwarded ==
  \A r \in Reqs :
    /\ (pc[r] \notin {"Idle", "Validating", "SelectingStrategy"}
        /\ failedAt[r] \notin {"Resolving", "Validating"}
        /\ chartType[r] \in DOMAIN MapTypeTools)
         => pc[r] = "MapApi" \/ CallsTo(r, "MapAPI") # {}
    /\ \A i \in CallsTo(r, "MapAPI") :
         /\ calls[r][i].body.tool = calls[r][i].tool
         /\ chartType[r] \in DOMAIN MapTypeTools
              => /\ calls[r][i].tool = MapTypeTools[chartType[r]]
                 /\ CHART_TYPE_MAP[calls[r][i].tool] = chartType[r]
         /\ tool[r] # GENERATE_CHART => calls[r][i].tool = tool[r]

C8_Witness ==
  \E r \in Reqs :
    /\ tool[r] = GENERATE_CHART
    /\ chartType[r] = <<"pin", "-", "map">>
    /\ CallsTo(r, "MapAPI") # {}
    /\ calls[r][1].tool = <<"generate", "_", "pin", "_", "map">>

(* ------------------------------- C9 ------------------------------------ *)
\* C9: a request whose tool name is neither a key of the registry nor
\* generate_chart ends in resolution with isError = true and a message
\* containing "Unknown tool", without validation and without any
\* collaborator call.
C9_UnknownTool ==
  \A r \in Reqs :
    (/\ pc[r] # "Idle"
     /\ tool[r] \notin DOMAIN CHART_TYPE_MAP
     /\ tool[r] # GENERATE_CHART)
      => /\ calls[r] = <<>>
         /\ failedAt[r] # "Validating"
         /\ Finished(r) => /\ pc[r] = "Errored"
                           /\ failedAt[r] = "Resolving"
                           /\ IsError(r)
                           /\ OneTextBlock(r)
                           /\ Includes(Text(r), <<"Unknown tool">>)

(* ------------------------------- C10 ----------------------------------- *)
HasType(r) == "type" \in DOMAIN args[r]

\* t is one of the chart types of the registry
Supported(t) == \E k \in DOMAIN CHART_TYPE_MAP : CHART_TYPE_MAP[k] = t

\* the request went on to generateChart
PastResolution(r) == pc[r] # "Idle" /\ failedAt[r] # "Resolving"

\* the request ended in resolution: isError = true, one text block, no
\* validation, no strategy, no collaborator call
EndedInResolution(r) ==
  /\ pc[r] = "Errored"
  /\ failedAt[r] = "Resolving"
  /\ IsError(r)
  /\ OneTextBlock(r)
  /\ calls[r] = <<>>

\* the text names every chart type of the registry
EnumeratesSupportedTypes(text) ==
  \A k \in DOMAIN CHART_TYPE_MAP : Includes(text, CHART_TYPE_MAP[k])

StrategyByType(ct) ==
  IF ct = CANDLESTICK THEN "stock"
  ELSE IF ct \in DOMAIN MapTypeTools THEN "map"
  ELSE "chart"

\* the collaborators of a strategy
Collaborators(strategy) ==
  CASE strategy = "stock" -> {"LocalRenderer", "Upload", "ExternalRenderer"}
    [] strategy = "map" -> {"MapAPI"}
    [] OTHER -> {"ChartAPI"}

\* the positions of a request inside a strategy
Positions(strategy) ==
  CASE strategy = "stock" ->
         {"RenderLocal", "UploadLocal", "Fallback", "External", "UploadExternal"}
    [] strategy = "map" -> {"MapApi"}
    [] OTHER -> {"ChartApi"}

PassedValidation(r) ==
  /\ pc[r] \notin {"Idle", "Validating"}
  /\ failedAt[r] \notin {"Resolving", "Validating"}

\* C11: a request that passed resolution and validation runs exactly the
\* strategy the priority rule gives its chart type (stock for candlestick,
\* else map for the three map types, else chart): it is inside that strategy
\* or past it, all its collaborator calls go to that strategy's
\* collaborators, and once past it at least one such call was made; a
\* request that did not pass validation calls no collaborator.
C11_OneStrategyByType ==
  \A r \in Reqs :
    /\ (PassedValidation(r) /\ pc[r] # "SelectingStrategy")
         => LET s == StrategyByType(chartType[r])
            IN /\ pc[r] \in Positions(s) \cup {"Normalizing", "Done", "Errored"}
               /\ \A i \in DOMAIN calls[r] : calls[r][i].to \in Collaborators(s)
               /\ pc[r] \notin Positions(s) => calls[r] # <<>>
    /\ (~PassedValidation(r) \/ pc[r] = "SelectingStrategy") => calls[r] = <<>>

C11_Witness ==
  \E r \in Reqs :
    /\ tool[r] = GENERATE_CHART
    /\ chartType[r] = <<"path", "-", "map">>
    /\ pc[r] = "Done"
    /\ CallsTo(r, "MapAPI") # {}

(* ------------------------------- C12 ----------------------------------- *)
\* C12: in the stock strategy local rendering is the first call and happens
\* once; the external rendering service is called at most once, only right
\* after local rendering failed and only at the configured address; and
\* when the external service answers, its image is what the next upload
\* sends, and the URL of that upload is the text of the envelope.
C12_StockStageOrder ==
  \A r \in Reqs :
    IsCandlestick(r) =>
      /\ calls[r] # <<>> => calls[r][1].to = "LocalRenderer"
      /\ Cardinality(CallsTo(r, "LocalRenderer")) <= 1
      /\ Cardinality(CallsTo(r, "ExternalRenderer")) <= 1
      /\ \A j \in CallsTo(r, "ExternalRenderer") :
           /\ j = 2
           /\ ~calls[r][1].ok
           /\ Truthy(STOCK_CHART_SERVICE)
           /\ calls[r][j].tool = STOCK_CHART_SERVICE
           /\ (calls[r][j].ok /\ pc[r] # "UploadExternal")
                => /\ Len(calls[r]) = j + 1
                   /\ calls[r][j + 1].to = "Upload"
                   /\ calls[r][j + 1].body.file = calls[r][j].value
                   /\ (pc[r] = "Done" => Text(r) = calls[r][j + 1].value)

(* ------------------------------- C13 ----------------------------------- *)
\* the Chart API call of request r answered with success = false
ChartApiRefused(r) ==
  \E i \in CallsTo(r, "ChartAPI") :
    calls[r][i].reply.kind = "data" /\ ~calls[r][i].reply.success

\* the Chart API call of request r failed without a response
ChartApiUnreachable(r) ==
  \E i \in CallsTo(r, "ChartAPI") :
    /\ calls[r][i].reply.kind = "error"
    /\ ~calls[r][i].reply.error.response
    /\ Truthy(calls[r][i].reply.error.message)

\* the message of the error the strategy threw: the text of the envelope
\* behind the prefix of generateChart's catch block
ThrownMessage(r) == Tail(Text(r))

\* C13: when the Chart API answers success = false, the error the chart
\* strategy raises has exactly the provided errorMessage as its message (or
\* "Chart generation failed" when none is provided), and the prefix
\* "Failed to generate chart URL: " appears only when the call failed
\* without a response.
C13_RefusalMessage ==
  \A r \in Reqs :
    (pc[r] = "Errored" /\ CallsTo(r, "ChartAPI") # {} /\ Supported(chartType[r]))
      => /\ Head(Text(r)) = "Failed to generate chart: " \/ Text(r) = <<"Unknown error.">>
         /\ ChartApiRefused(r)
              => LET reply == calls[r][1].reply
                 IN ThrownMessage(r) =
                      IF Truthy(reply.errorMessage) THEN reply.errorMessage
                      ELSE <<"Chart generation failed">>
         /\ Includes(Text(r), <<"Failed to generate chart URL: ">>)
              => ChartApiUnreachable(r)

(* ------------------------------- C14 ----------------------------------- *)
\* C14: the body of every Chart API call of a request whose chart type is a
\* registry type has type equal to the resolved chart type, source equal to
\* the origin tag, and as its other fields the fields of the arguments
\* other than type and source.
C14_ChartRequestBody ==
  \A r \in Reqs : \A i \in CallsTo(r, "ChartAPI") :
    Supported(chartType[r])
      => LET body == calls[r][i].body
         IN /\ body.type = chartType[r]
            /\ body.source = SOURCE
            /\ \A k \in (DOMAIN body) \ {"type", "source"} :
                 k \in DOMAIN options[r] /\ body[k] = options[r][k]
            /\ \A k \in (DOMAIN options[r]) \ {"type", "source"} : k \in DOMAIN body

(* ------------------------------- C15 ----------------------------------- *)
\* every step of request r but its arrival: the stages run on their own,
\* and a collaborator call returns or throws
Progress(r) ==
  \/ Validate(r)
  \/ SelectStrategy(r)
  \/ RenderLocal(r)
  \/ UploadLocal(r)
  \/ Fallback(r)
  \/ External(r)
  \/ UploadExternal(r)
  \/ MapApi(r)
  \/ ChartApi(r)
  \/ Normalize(r)

\* a single request whose stages and collaborator calls are not left
\* pending for ever
FairSpec == Spec /\ \A r \in {1} : WF_vars(Progress(r))

\* the stage of the dispatcher a position belongs to; a request that has
\* not been resolved yet is in Resolving
Stage(p) ==
  CASE p = "Idle" -> "Resolving"
    [] p \in {"Validating", "SelectingStrategy", "Normalizing", "Done", "Errored"} -> p
    [] OTHER -> "Executing"

\* the moves between stages the dispatcher allows
StageOrder ==
  { <<"Resolving", "Validating">>, <<"Validating", "SelectingStrategy">>,
    <<"SelectingStrategy", "Executing">>, <<"Executing", "Executing">>,
    <<"Executing", "Normalizing">>, <<"Normalizing", "Done">> }
  \cup { <<s, "Errored">> :
           s \in {"Resolving", "Validating", "SelectingStrategy", "Executing"} }

\* C15: a request moves through Resolving, Validating, SelectingStrategy,
\* Executing, Normalizing and Done in this order, leaving the order only for
\* Errored; collaborators are called in Executing only; a request in Done or
\* Errored changes no more and calls nothing; and a request that was
\* received eventually is in Done or Errored.
C15_StagesInOrderAndEnd ==
  /\ [][\A r \in Reqs :
          /\ pc'[r] # pc[r] => <<Stage(pc[r]), Stage(pc'[r])>> \in StageOrder
          /\ calls'[r] # calls[r] => Stage(pc[r]) = "Executing"
          /\ Finished(r) => /\ pc'[r] = pc[r]
                            /\ calls'[r] = calls[r]
                            /\ envelope'[r] = envelope[r]]_vars
  /\ \A r \in {1} : (pc[r] # "Idle") ~> Finished(r)

C15_Witness ==
  \E r \in Reqs :
    /\ pc[r] = "Done"
    /\ tool[r] = <<"generate", "_", "line", "_", "chart">>
    /\ Len(calls[r]) = 1
    /\ calls[r][1].to = "ChartAPI"

(* ------------------------------- C16 ----------------------------------- *)
\* the setting is changed while the process runs
SetEnv(v) ==
  /\ v # STOCK_CHART_SERVICE
  /\ STOCK_CHART_SERVICE' = v
  /\ UNCHANGED <<pc, tool, args, chartType, options, localError, base64Image,
                 customServiceUrl, result, envelope, calls, failedAt, atStartup>>

\* a single request in a process whose setting may change at any moment
NextEnv == Next \/ \E v \in EnvInputs : SetEnv(v)

SpecEnv == Init /\ [][NextEnv]_vars

\* C16: whether and where a request falls back is decided by the value
\* STOCK_CHART_SERVICE had at startup: a request calls the external service
\* only if that value was set, and at that address; it ends with the
\* configuration instructions only if that value was unset.
C16_StartupValueDecides ==
  \A r \in Reqs :
    /\ pc[r] \in {"External", "UploadExternal"}
         => Truthy(atStartup) /\ customServiceUrl[r] = atStartup
    /\ \A i \in CallsTo(r, "ExternalRenderer") :
         Truthy(atStartup) /\ calls[r][i].tool = atStartup
    /\ (pc[r] = "Errored" /\ failedAt[r] = "Executing"
        /\ Includes(Text(r), ConfigurationInstructions))
         => ~Truthy(atStartup)

(* ------------------------------- C17 ----------------------------------- *)
\* C17: when the Map API answers success = true, the finished request
\* returns the result object without its metadata field: the same content,
\* the same isError if there is one, no _meta and no metadata; when it
\* answers success = false, the request ends with isError = true and one
\* text block that contains the provided error message, or "Map generation
\* failed" when none is provided.
C17_MapResultForwarded ==
  \A r \in Reqs : \A i \in CallsTo(r, "MapAPI") :
    LET reply == calls[r][i].reply
    IN (Finished(r) /\ reply.kind = "data")
         => IF reply.success
            THEN /\ pc[r] = "Done"
                 /\ DOMAIN envelope[r] = (DOMAIN reply.resultObj) \ {"metadata"}
                 /\ \A k \in DOMAIN envelope[r] : envelope[r][k] = reply.resultObj[k]
                 /\ "_meta" \notin DOMAIN envelope[r]
                 /\ "content" \in DOMAIN envelope[r]
            ELSE /\ pc[r] = "Errored"
                 /\ IsError(r)
                 /\ OneTextBlock(r)
                 /\ Includes(Text(r), IF Truthy(reply.errorMessage)
                                      THEN reply.errorMessage
                                      ELSE <<"Map generation failed">>)

C17_Witness ==
  \E r \in Reqs : \E i \in CallsTo(r, "MapAPI") :
    /\ pc[r] = "Done"
    /\ calls[r][i].reply.success
    /\ "metadata" \in DOMAIN calls[r][i].reply.resultObj
    /\ DOMAIN envelope[r] = {"content", "isError"}

(* ------------------------------- C19 ----------------------------------- *)
CANDLESTICK_TOOL == <<"generate", "_", "candlestick", "_", "chart">>

\* C19: for every request handed to generateChart, the candlestick tool
\* name comes with the candlestick chart type and each map tool name with
\* its own map type, so the strategy generateChart selects is the one its
\* chart type alone gives.
C19_StrategyByTypeAlone ==
  \A r \in Reqs :
    PastResolution(r)
      => /\ tool[r] = CANDLESTICK_TOOL => chartType[r] = CANDLESTICK
         /\ \A ct \in DOMAIN MapTypeTools :
              tool[r] = MapTypeTools[ct] => chartType[r] = ct
         /\ Strategy(chartType[r], tool[r]) = StrategyByType(chartType[r])
         /\ isStockChart(chartType[r], tool[r]) <=> chartType[r] = CANDLESTICK
         /\ isMapChartTool(chartType[r], tool[r])
              <=> chartType[r] \in DOMAIN MapTypeTools

C19_Witness ==
  \E r \in Reqs :
    /\ pc[r] = "RenderLocal"
    /\ tool[r] = CANDLESTICK_TOOL
    /\ "type" \in DOMAIN args[r]
    /\ chartType[r] = CANDLESTICK

(* ------------------------------- C18 ----------------------------------- *)
\* the requests that run concurrently: a candlestick request with one valid
\* record, a chart request by its own tool name, a map request through the
\* unified tool
ConcInputs ==
  { [tool |-> CANDLESTICK_TOOL,
     args |-> [data |-> [isArray |-> TRUE,
                         items |-> <<[date |-> "string", open |-> "number",
                                      close |-> "number", high |-> "number",
                                      low |-> "number"]>>]]],
    [tool |-> <<"generate", "_", "line", "_", "chart">>, args |-> EmptyObject],
    [tool |-> GENERATE_CHART, args |-> [type |-> <<"pin", "-", "map">>]] }

\* a step of request r while the other requests are at any await
StepConc(r) ==
  \/ \E in \in ConcInputs : CallTool(r, in.tool, in.args)
  \/ Progress(r)

NextConc == \E r \in Reqs : StepConc(r)

SpecConc == Init /\ [][NextConc]_vars

\* everything a call of callTool holds: its parameters, its locals, its
\* position, its collaborator calls and what it returns
Local(r) ==
  <<pc[r], tool[r], args[r], chartType[r], options[r], localError[r],
    base64Image[r], customServiceUrl[r], result[r], envelope[r], calls[r],
    failedAt[r]>>

\* requests r and q got the same collaborator responses
SameReplies(r, q) ==
  /\ Len(calls[r]) = Len(calls[q])
  /\ \A i \in DOMAIN calls[r] :
       /\ calls[r][i].to = calls[q][i].to
       /\ calls[r][i].reply = calls[q][i].reply

\* requests r and q were called with the same tool and arguments, and the
\* schema gave the same verdict
SameInputs(r, q) ==
  /\ tool[r] = tool[q]
  /\ args[r] = args[q]
  /\ (failedAt[r] = "Validating") <=> (failedAt[q] = "Validating")

\* C18: whatever the interleaving of the requests, a step of one request
\* changes nothing another request holds; the image a request uploads is the
\* one its own preceding rendering call returned; and two requests with the
\* same tool, arguments and collaborator responses make the same calls and
\* return the same envelope, however they were interleaved.
C18_RequestsIndependent ==
  /\ [][\A r \in Reqs :
          Local(r)' # Local(r) => \A q \in Reqs \ {r} : Local(q)' = Local(q)]_vars
  /\ [](\A r \in Reqs : \A i \in CallsTo(r, "Upload") :
          /\ i > 1
          /\ calls[r][i - 1].to \in {"LocalRenderer", "ExternalRenderer"}
          /\ calls[r][i].body.file = StripDataUri(calls[r][i - 1].value))
  /\ [](\A r \in Reqs : \A q \in Reqs :
          (Finished(r) /\ Finished(q) /\ SameInputs(r, q) /\ SameReplies(r, q))
            => /\ calls[r] = calls[q]
               /\ envelope[r] = envelope[q]
               /\ pc[r] = pc[q])

\* a candlestick request waits for its upload while a map request that
\* arrived meanwhile already has the Map API's answer
C18_Witness ==
  \E r \in Reqs : \E q \in Reqs \ {r} :
    /\ pc[r] = "UploadLocal"
    /\ Len(calls[r]) = 1
    /\ pc[q] = "Normalizing"
    /\ CallsTo(q, "MapAPI") = {1}

(* ------------------------------- C20 ----------------------------------- *)
\* the tool the registry holds for chart type t
ToolOf(t) == CHOOSE k \in DOMAIN CHART_TYPE_MAP : CHART_TYPE_MAP[k] = t

\* { type: t, ...a }
WithType(t, a) == [k \in DOMAIN a \cup {"type"} |-> IF k = "type" THEN t ELSE a[k]]

\* callTool("generate_chart", { type: t, ...a }) as request 1
CallUnified(t, a) == CallTool(1, GENERATE_CHART, WithType(t, a))

\* callTool of the tool registered for the type of request 1, with the
\* arguments of request 1 less the type, as request 2
CallIndividual ==
  /\ pc[1] # "Idle"
  /\ CallTool(2, ToolOf(args[1].type), Omit(args[1], "type"))

NextPair ==
  \/ \E i \in DOMAIN ObjectValues :
       \E a \in ArgsWithKeys({"data"}, {}) \cup {EmptyObject} :
         CallUnified(ObjectValues[i], a)
  \/ CallIndividual
  \/ \E r \in {1, 2} : Progress(r)

SpecPair == Init /\ [][NextPair]_vars

\* request 1 came through the unified tool with a supported type, request 2
\* through the tool registered for that type with the other arguments
Corresponds ==
  /\ tool[1] = GENERATE_CHART
  /\ HasType(1)
  /\ Supported(args[1].type)
  /\ tool[2] = ToolOf(args[1].type)
  /\ args[2] = Omit(args[1], "type")

C20_WitnessMap ==
  /\ Corresponds
  /\ chartType[1] = <<"pin", "-", "map">>
  /\ pc[1] = "Done" /\ pc[2] = "Done"
  /\ SameReplies(1, 2)
  /\ CallsTo(1, "MapAPI") = {1}
====
